---------------------------- MODULE Spec2Model ----------------------------
(***************************************************************************)
(* A model of the nom-based HTTP parser of src/src/lib.rs.                 *)
(*                                                                         *)
(* A string is a sequence of one-character strings.  A parser is an        *)
(* operator from an input string to a result record:                       *)
(*   [st |-> "Ok",  rest |-> remainder, out |-> value]    Ok((rest, out))  *)
(*   [st |-> "Err", rest |-> input,     kind |-> kind]    Err(Error{..})   *)
(*   [st |-> "Panic"]                                     unimplemented!() *)
(* The nom 6 combinators are modelled by what they do with nom's default   *)
(* error type, whose `append` and `or` both keep the later error.          *)
(***************************************************************************)
EXTENDS Integers, Sequences, FiniteSets, TLC

VARIABLES input, fn, res

vars == <<input, fn, res>>

-----------------------------------------------------------------------------
(* Bounds of the checked input families.                                   *)

MaxSuffixLen == 2
MaxGroupLen == 4
MaxTailLen == 1
MaxHostLen == 5
MaxAuthLen == 5
MaxHeaderLen == 7
MaxWsLen == 2
MaxValueLen == 2

-----------------------------------------------------------------------------
(* Characters and strings.                                                 *)

UpperSeq == <<"A","B","C","D","E","F","G","H","I","J","K","L","M",
              "N","O","P","Q","R","S","T","U","V","W","X","Y","Z">>
LowerSeq == <<"a","b","c","d","e","f","g","h","i","j","k","l","m",
              "n","o","p","q","r","s","t","u","v","w","x","y","z">>
DigitSeq == <<"0","1","2","3","4","5","6","7","8","9">>

Range(s) == {s[k] : k \in DOMAIN s}

UpperChars == Range(UpperSeq)
LowerChars == Range(LowerSeq)
AlphaChars == UpperChars \cup LowerChars
DigitChars == Range(DigitSeq)
AlnumChars == AlphaChars \cup DigitChars
SpaceChars == {" ", "\t"}

IndexIn(s, c) == CHOOSE k \in DOMAIN s : s[k] = c

CharToUpper(c) == IF c \in LowerChars THEN UpperSeq[IndexIn(LowerSeq, c)] ELSE c
CharToLower(c) == IF c \in UpperChars THEN LowerSeq[IndexIn(UpperSeq, c)] ELSE c

to_uppercase(s) == [k \in DOMAIN s |-> CharToUpper(s[k])]

Take(s, n) == SubSeq(s, 1, n)
Drop(s, n) == SubSeq(s, n + 1, Len(s))

SeqsUpTo(S, n) == UNION {[1..k -> S] : k \in 0..n}

-----------------------------------------------------------------------------
(* nom results and combinators.                                            *)

Ok(rest, out) == [st |-> "Ok", rest |-> rest, out |-> out]
Err(rest, kind) == [st |-> "Err", rest |-> rest, kind |-> kind]
Panic == [st |-> "Panic"]
NoResult == [st |-> "None"]

None == [some |-> FALSE]
Some(v) == [some |-> TRUE, val |-> v]

\* K applied to the value of e, which is evaluated once
Let(e, K(_)) == CHOOSE y \in {K(v) : v \in {e}} : TRUE

\* Result::and_then: an error is passed on, a success is handed to K
and_then(e, K(_)) == Let(e, LAMBDA r : IF r.st # "Ok" THEN r ELSE K(r))

\* bytes::complete::tag
tag(t, i) ==
    IF Len(i) >= Len(t) /\ Take(i, Len(t)) = t
    THEN Ok(Drop(i, Len(t)), Take(i, Len(t)))
    ELSE Err(i, "Tag")

\* bytes::complete::tag_no_case: the characters are compared lowercased, the
\* matched slice is returned as it stands in the input
tag_no_case(t, i) ==
    IF /\ Len(i) >= Len(t)
       /\ \A k \in 1..Len(t) : CharToLower(i[k]) = CharToLower(t[k])
    THEN Ok(Drop(i, Len(t)), Take(i, Len(t)))
    ELSE Err(i, "Tag")

\* bytes::complete::take
take(n, i) == IF Len(i) >= n THEN Ok(Drop(i, n), Take(i, n)) ELSE Err(i, "Eof")

\* branch::alt of two parsers: the first success, else the error of the last
\* alternative (Error::or keeps the later error, Error::append the inner one)
alt(P(_), Q(_), i) == Let(P(i), LAMBDA a : IF a.st = "Ok" THEN a ELSE Q(i))

\* combinator::opt
opt(P(_), i) ==
    Let(P(i), LAMBDA a : IF a.st = "Ok" THEN Ok(a.rest, Some(a.out)) ELSE Ok(i, None))

\* sequence::tuple / sequence::pair of two parsers
tuple(P(_), Q(_), i) ==
    and_then(P(i), LAMBDA a :
    and_then(Q(a.rest), LAMBDA b : Ok(b.rest, <<a.out, b.out>>)))

\* sequence::terminated
terminated(P(_), Q(_), i) ==
    and_then(P(i), LAMBDA a :
    and_then(Q(a.rest), LAMBDA b : Ok(b.rest, a.out)))

\* sequence::delimited
delimited(P(_), Q(_), R(_), i) ==
    and_then(P(i), LAMBDA a :
    and_then(Q(a.rest), LAMBDA b :
    and_then(R(b.rest), LAMBDA c : Ok(c.rest, b.out))))

\* sequence::separated_pair
separated_pair(P(_), S(_), Q(_), i) ==
    and_then(P(i), LAMBDA a :
    and_then(S(a.rest), LAMBDA b :
    and_then(Q(b.rest), LAMBDA c : Ok(c.rest, <<a.out, c.out>>))))

\* multi::many0: elements are collected up to the first error of P; an element
\* that consumes nothing is an error
RECURSIVE many0(_, _)
many0(P(_), i) ==
    Let(P(i), LAMBDA r :
        IF r.st # "Ok" THEN Ok(i, <<>>)
        ELSE IF Len(r.rest) = Len(i) THEN Err(i, "Many0")
        ELSE and_then(many0(P, r.rest), LAMBDA t : Ok(t.rest, <<r.out>> \o t.out)))

\* the loop of multi::many1 after its first element
RECURSIVE many1_loop(_, _)
many1_loop(P(_), i) ==
    Let(P(i), LAMBDA r :
        IF r.st # "Ok" THEN Ok(i, <<>>)
        ELSE IF Len(r.rest) = Len(i) THEN Err(i, "Many1")
        ELSE and_then(many1_loop(P, r.rest), LAMBDA t : Ok(t.rest, <<r.out>> \o t.out)))

\* multi::many1: the error of a failing first element is returned
many1(P(_), i) ==
    and_then(P(i), LAMBDA r :
    and_then(many1_loop(P, r.rest), LAMBDA t : Ok(t.rest, <<r.out>> \o t.out)))

\* multi::many_m_n from its iteration number count on: an error of P before min
\* elements is returned, after them it ends the list
RECURSIVE many_m_n_from(_, _, _, _, _)
many_m_n_from(min, max, count, P(_), i) ==
    IF count >= max THEN Ok(i, <<>>)
    ELSE Let(P(i), LAMBDA r :
        IF r.st # "Ok" THEN (IF count < min THEN r ELSE Ok(i, <<>>))
        ELSE IF Len(r.rest) = Len(i) THEN Err(i, "ManyMN")
        ELSE and_then(many_m_n_from(min, max, count + 1, P, r.rest),
                      LAMBDA t : Ok(t.rest, <<r.out>> \o t.out)))

\* multi::many_m_n
many_m_n(min, max, P(_), i) == many_m_n_from(min, max, 0, P, i)

\* multi::count
RECURSIVE count(_, _, _)
count(P(_), n, i) ==
    IF n = 0 THEN Ok(i, <<>>)
    ELSE and_then(P(i), LAMBDA r :
         and_then(count(P, n - 1, r.rest), LAMBDA t : Ok(t.rest, <<r.out>> \o t.out)))

\* the length of the longest prefix of i whose characters are all in class C
RECURSIVE SpanLen(_, _)
SpanLen(i, C) ==
    IF i # <<>> /\ Head(i) \in C THEN 1 + SpanLen(Tail(i), C) ELSE 0

\* InputTakeAtPosition::split_at_position1_complete, C the characters that the
\* predicate does not stop at
split_at_position1_complete(i, C, kind) ==
    Let(SpanLen(i, C), LAMBDA n :
        IF n = 0 THEN Err(i, kind) ELSE Ok(Drop(i, n), Take(i, n)))

\* InputTakeAtPosition::split_at_position_complete
split_at_position_complete(i, C) ==
    Let(SpanLen(i, C), LAMBDA n : Ok(Drop(i, n), Take(i, n)))

\* character::complete::alphanumeric1
alphanumeric1(i) == split_at_position1_complete(i, AlnumChars, "AlphaNumeric")

\* character::complete::alpha1
alpha1(i) == split_at_position1_complete(i, AlphaChars, "Alpha")

\* character::complete::space0
space0(i) == split_at_position_complete(i, SpaceChars)

\* character::complete::newline
newline(i) ==
    IF i # <<>> /\ Head(i) = "\n" THEN Ok(Tail(i), Head(i)) ELSE Err(i, "Char")

\* character::complete::one_of
one_of(list, i) ==
    IF i # <<>> /\ Head(i) \in list THEN Ok(Tail(i), Head(i)) ELSE Err(i, "OneOf")

-----------------------------------------------------------------------------
(* Method and request_method.                                              *)

S_GET == <<"G","E","T">>
S_HEAD == <<"H","E","A","D">>
S_POST == <<"P","O","S","T">>
S_PUT == <<"P","U","T">>
S_DELETE == <<"D","E","L","E","T","E">>
S_CONNECT == <<"C","O","N","N","E","C","T">>
S_OPTIONS == <<"O","P","T","I","O","N","S">>
S_TRACE == <<"T","R","A","C","E">>

\* enum Method: each variant with the token that names it
Method ==
    { <<S_GET, "GET">>, <<S_HEAD, "HEAD">>, <<S_POST, "POST">>, <<S_PUT, "PUT">>,
      <<S_DELETE, "DELETE">>, <<S_CONNECT, "CONNECT">>, <<S_OPTIONS, "OPTIONS">>,
      <<S_TRACE, "TRACE">> }

\* the arms of the match of Method::from, on the string u
MethodMatch(u) ==
    IF u = S_GET THEN "GET"
    ELSE IF u = S_POST THEN "POST"
    ELSE IF u = S_HEAD THEN "HEAD"
    ELSE IF u = S_PUT THEN "PUT"
    ELSE IF u = S_DELETE THEN "DELETE"
    ELSE IF u = S_CONNECT THEN "CONNECT"
    ELSE IF u = S_OPTIONS THEN "OPTIONS"
    ELSE IF u = S_TRACE THEN "TRACE"
    ELSE "unimplemented!"

\* Method::from with the match on i as it stands, not on i.to_uppercase()
MethodFromCaseSensitive(i) == MethodMatch(i)

\* impl From<&str> for Method
MethodFrom(i) == MethodMatch(to_uppercase(i))

\* alt over tag_no_case of each of tags, in their order
RECURSIVE alt_tags_no_case(_, _)
alt_tags_no_case(tags, i) ==
    IF Len(tags) = 1 THEN tag_no_case(tags[1], i)
    ELSE alt(LAMBDA j : tag_no_case(Head(tags), j),
             LAMBDA j : alt_tags_no_case(Tail(tags), j), i)

\* the alternatives of request_method, in the order of the source
MethodTags == <<S_GET, S_POST, S_PUT, S_DELETE, S_CONNECT, S_OPTIONS, S_TRACE>>

request_method(i) ==
    and_then(alt_tags_no_case(MethodTags, i), LAMBDA r :
        Let(MethodFrom(r.out), LAMBDA m :
            IF m = "unimplemented!" THEN Panic ELSE Ok(r.rest, m)))

-----------------------------------------------------------------------------
(* Scheme and scheme.                                                      *)

S_HTTP == <<"H","T","T","P",":","/","/">>
S_HTTPS == <<"H","T","T","P","S",":","/","/">>

\* impl From<&str> for Scheme: the uppercased string is matched against the
\* lowercase literals "http" and "https"
SchemeFrom(i) ==
    Let(to_uppercase(i), LAMBDA u :
        IF u = <<"h","t","t","p">> THEN "HTTP"
        ELSE IF u = <<"h","t","t","p","s">> THEN "HTTPS"
        ELSE "unimplemented!")

scheme(i) ==
    and_then(alt_tags_no_case(<<S_HTTP, S_HTTPS>>, i), LAMBDA r :
        Let(SchemeFrom(r.out), LAMBDA m :
            IF m = "unimplemented!" THEN Panic ELSE Ok(r.rest, m)))

-----------------------------------------------------------------------------
(* authority.                                                              *)

\* separated_pair(alphanumeric1, opt(tag(":")), opt(alphanumeric1))
authority_pair(i) ==
    separated_pair(alphanumeric1,
                   LAMBDA j : opt(LAMBDA k : tag(<<":">>, k), j),
                   LAMBDA j : opt(alphanumeric1, j), i)

\* terminated(separated_pair(..), tag("@"))
authority_at(i) == terminated(authority_pair, LAMBDA j : tag(<<"@">>, j), i)

\* authority with a password that is required, not opt(alphanumeric1)
authority_password_required(i) ==
    opt(LAMBDA x :
            terminated(LAMBDA y :
                           separated_pair(alphanumeric1,
                                          LAMBDA j : opt(LAMBDA k : tag(<<":">>, k), j),
                                          LAMBDA j : and_then(alphanumeric1(j),
                                              LAMBDA p : Ok(p.rest, Some(p.out))), y),
                       LAMBDA j : tag(<<"@">>, j), x), i)

authority(i) == opt(authority_at, i)

-----------------------------------------------------------------------------
(* host.                                                                   *)

AlnumHyphenChars == AlnumChars \cup {"-"}

\* alphanumerichyphen1 on split_at_position_complete: an empty match is accepted
alphanumerichyphen0(i) == split_at_position_complete(i, AlnumHyphenChars)

alphanumerichyphen1(i) ==
    split_at_position1_complete(i, AlnumHyphenChars, "AlphaNumeric")

\* terminated(alphanumerichyphen1, tag("."))
label_dot(i) == terminated(alphanumerichyphen1, LAMBDA j : tag(<<".">>, j), i)

\* tuple((many1(terminated(alphanumerichyphen1, tag("."))), alpha1))
host_dotted(i) == tuple(LAMBDA j : many1(label_dot, j), alpha1, i)

\* tuple((many_m_n(1, 1, alphanumerichyphen1), take(0)))
host_single(i) ==
    tuple(LAMBDA j : many_m_n(1, 1, alphanumerichyphen1, j), LAMBDA j : take(0, j), i)

\* [&str]::join
RECURSIVE join(_, _)
join(labels, sep) ==
    IF labels = <<>> THEN <<>>
    ELSE IF Len(labels) = 1 THEN labels[1]
    ELSE labels[1] \o sep \o join(Tail(labels), sep)

\* the labels joined with nothing between them
host_name_concat(labels) == join(labels, <<>>)

\* res.0.join(".")
host_name(labels) == join(labels, <<".">>)

HOST(name) == [variant |-> "HOST", name |-> name]
IP(octets) == [variant |-> "IP", octets |-> octets]

host(i) ==
    and_then(alt(host_dotted, host_single, i), LAMBDA r :
        Ok(r.rest, HOST(host_name(IF r.out[2] # <<>>
                                  THEN Append(r.out[1], r.out[2])
                                  ELSE r.out[1]))))

-----------------------------------------------------------------------------
(* ip.                                                                     *)

one_digit(i) == one_of(DigitChars, i)

\* many_m_n(1, 4, one_digit)
one_to_four_digits(i) == many_m_n(1, 4, one_digit, i)

one_to_three_digits(i) == many_m_n(1, 3, one_digit, i)

\* the value of a string of decimal digits
RECURSIVE DecimalValue(_)
DecimalValue(s) ==
    IF s = <<>> THEN 0
    ELSE 10 * DecimalValue(Take(s, Len(s) - 1)) + (IndexIn(DigitSeq, s[Len(s)]) - 1)

\* u8::MAX: str::parse::<u8> fails above it
U8Max == 255

ip_num(i) ==
    and_then(one_to_three_digits(i), LAMBDA d :
        Let(DecimalValue(d.out), LAMBDA n :
            IF n <= U8Max THEN Ok(d.rest, n) ELSE Err(d.rest, "Digit")))

\* terminated(ip_num, tag("."))
ip_num_dot(i) == terminated(ip_num, LAMBDA j : tag(<<".">>, j), i)

ip(i) ==
    and_then(tuple(LAMBDA j : count(ip_num_dot, 3, j), ip_num, i), LAMBDA r :
        Ok(r.rest, IP(Append(r.out[1], r.out[2]))))

host_or_ip(i) == alt(host, ip, i)

-----------------------------------------------------------------------------
(* header and headers.                                                     *)

\* terminated(tag(":"), space0): no space is skipped before the colon
colon_space0(i) == terminated(LAMBDA j : tag(<<":">>, j), space0, i)

spaced_colon(i) == delimited(space0, LAMBDA j : tag(<<":">>, j), space0, i)

not_newline(chr) == chr # "\n"

\* bytes::complete::take_while(not_newline)
take_while_not_newline(i) ==
    split_at_position_complete(i, {chr \in Range(i) : not_newline(chr)})

\* terminated(take_while(not_newline), newline)
header_value(i) == terminated(take_while_not_newline, newline, i)

header(i) == separated_pair(alphanumerichyphen1, spaced_colon, header_value, i)

\* many1(header): at least one header line is required
headers_many1(i) == many1(header, i)

headers(i) == many0(header, i)

-----------------------------------------------------------------------------
(* The input families.                                                     *)

\* t with the letters at the positions of m lowercased
MixCase(t, m) == [k \in DOMAIN t |-> IF k \in m THEN CharToLower(t[k]) ELSE t[k]]

\* every prefix of every token of T, in every mix of letter cases
CasePrefixes(T) ==
    UNION {{Take(MixCase(t, m), k) : m \in SUBSET (1..Len(t)), k \in 0..Len(t)} : t \in T}

SuffixChars == {" ", "T", "x"}
Suffixes == SeqsUpTo(SuffixChars, MaxSuffixLen)

\* a method token or a prefix of one, in any mix of cases, then a short suffix
MethodInputs == {p \o s : p \in CasePrefixes({m[1] : m \in Method}), s \in Suffixes}

\* a scheme prefix or a part of one, in any mix of cases, then a short suffix
SchemeInputs == {p \o s : p \in CasePrefixes({S_HTTP, S_HTTPS}), s \in Suffixes}

HostChars == {"b", "7", "-", ".", ":"}
HostInputs == SeqsUpTo(HostChars, MaxHostLen)

AuthorityChars == {"u", "7", ":", "@", "."}
AuthorityInputs == SeqsUpTo(AuthorityChars, MaxAuthLen)

\* four digit groups, one of them any digit string up to MaxGroupLen and the
\* others plain, with separators of which at most one is not a dot, and a tail
IpDigitChars == {"0", "2", "5"}
IpGroups == SeqsUpTo(IpDigitChars, MaxGroupLen)
IpPlainGroups == {<<"0">>, <<"2","5","5">>}
IpSeps == {<<".">>, <<":">>, <<>>}
IpTails == SeqsUpTo({":"}, MaxTailLen)
IpGroupTuples ==
    {[k \in 1..4 |-> IF k = p THEN x ELSE pl] :
        p \in 1..4, x \in IpGroups, pl \in IpPlainGroups}
IpSepTuples == {[k \in 1..3 |-> IF k = q THEN x ELSE <<".">>] : q \in 1..3, x \in IpSeps}
IpInputs ==
    {g[1] \o s[1] \o g[2] \o s[2] \o g[3] \o s[3] \o g[4] \o t :
        g \in IpGroupTuples, s \in IpSepTuples, t \in IpTails}

\* every string of header-block characters up to MaxHeaderLen
HeaderChars == {"a", " ", ":", "\n"}
HeadersInputs == SeqsUpTo(HeaderChars, MaxHeaderLen)

\* one header line with any spacing around its colon, followed by a rest
SpacingNames == {<<"a">>, <<"a","-">>, <<"-","7","Z">>}
SpacingWs == SeqsUpTo(SpaceChars, MaxWsLen)
SpacingValues ==
    {v \in SeqsUpTo({"v", " ", ":"}, MaxValueLen) : v = <<>> \/ Head(v) \notin SpaceChars}
SpacingRests == {<<>>, <<"a">>, <<"\n">>, <<"a",":","\n">>}
HeaderInputs ==
    {n \o w1 \o <<":">> \o w2 \o v \o <<"\n">> \o r :
        n \in SpacingNames, w1 \in SpacingWs, w2 \in SpacingWs,
        v \in SpacingValues, r \in SpacingRests}

-----------------------------------------------------------------------------
(* The state machine: an input is drawn, then one parser is applied to it. *)

RequestMethod ==
    /\ fn = "none"
    /\ fn' = "request_method"
    /\ res' = request_method(input)
    /\ UNCHANGED input

SchemeParse ==
    /\ fn = "none"
    /\ fn' = "scheme"
    /\ res' = scheme(input)
    /\ UNCHANGED input

AuthorityParse ==
    /\ fn = "none"
    /\ fn' = "authority"
    /\ res' = authority(input)
    /\ UNCHANGED input

HostParse ==
    /\ fn = "none"
    /\ fn' = "host"
    /\ res' = host(input)
    /\ UNCHANGED input

IpParse ==
    /\ fn = "none"
    /\ fn' = "ip"
    /\ res' = ip(input)
    /\ UNCHANGED input

HostOrIpParse ==
    /\ fn = "none"
    /\ fn' = "host_or_ip"
    /\ res' = host_or_ip(input)
    /\ UNCHANGED input

HeaderParse ==
    /\ fn = "none"
    /\ fn' = "header"
    /\ res' = header(input)
    /\ UNCHANGED input

HeadersParse ==
    /\ fn = "none"
    /\ fn' = "headers"
    /\ res' = headers(input)
    /\ UNCHANGED input

Fresh == fn = "none" /\ res = NoResult

InitMethod == input \in MethodInputs /\ Fresh
NextMethod == RequestMethod
SpecMethod == InitMethod /\ [][NextMethod]_vars

InitScheme == input \in SchemeInputs /\ Fresh
NextScheme == SchemeParse
SpecScheme == InitScheme /\ [][NextScheme]_vars

InitAuthority == input \in AuthorityInputs /\ Fresh
NextAuthority == AuthorityParse
SpecAuthority == InitAuthority /\ [][NextAuthority]_vars

InitHost == input \in HostInputs /\ Fresh
NextHost == HostParse \/ HostOrIpParse
SpecHost == InitHost /\ [][NextHost]_vars

InitIp == input \in IpInputs /\ Fresh
NextIp == IpParse \/ HostOrIpParse
SpecIp == InitIp /\ [][NextIp]_vars

InitHeaders == input \in HeadersInputs /\ Fresh
NextHeaders == HeadersParse \/ HeaderParse
SpecHeaders == InitHeaders /\ [][NextHeaders]_vars

InitHeader == input \in HeaderInputs /\ Fresh
NextHeader == HeaderParse \/ HeadersParse
SpecHeader == InitHeader /\ [][NextHeader]_vars

-----------------------------------------------------------------------------
(* Claims about request_method and scheme.                                 *)

\* i begins with the uppercase token t written in any mix of letter cases
BeginsNoCase(t, i) == Len(i) >= Len(t) /\ to_uppercase(Take(i, Len(t))) = t

\* C1: for every one of the eight method tokens GET, HEAD, POST, PUT, DELETE,
\* CONNECT, OPTIONS, TRACE, in any mix of upper and lower case and followed by
\* any suffix s, request_method succeeds with the matching Method variant and
\* with remainder exactly s.
C1_EveryMethodTokenParses ==
    fn = "request_method" =>
        \A m \in Method :
            BeginsNoCase(m[1], input) => res = Ok(Drop(input, Len(m[1])), m[2])

\* C2: for every input that does not begin, case-insensitively, with one of the
\* eight method tokens (the empty input and proper prefixes of a token included),
\* request_method returns an error of kind Tag carrying the whole input; and for
\* no input does request_method reach the unimplemented!() branch of Method::from.
C2_UnknownMethodIsTagError ==
    fn = "request_method" =>
        /\ res.st # "Panic"
        /\ (\A m \in Method : ~BeginsNoCase(m[1], input)) => res = Err(input, "Tag")

\* a proper prefix of a token followed by other text has been rejected
C2_Witness ==
    /\ fn = "request_method"
    /\ input = <<"g","E"," ","T">>
    /\ res = Err(input, "Tag")

\* C9: scheme never aborts: an input beginning with "http://" or "https://" in
\* any letter case gives Scheme HTTP or HTTPS with the remainder right after the
\* prefix, every other input gives an error value, and no input reaches the
\* unimplemented!() branch of Scheme::from.
C9_SchemeNeverAborts ==
    fn = "scheme" =>
        /\ res.st # "Panic"
        /\ BeginsNoCase(S_HTTP, input) => res = Ok(Drop(input, Len(S_HTTP)), "HTTP")
        /\ BeginsNoCase(S_HTTPS, input) => res = Ok(Drop(input, Len(S_HTTPS)), "HTTPS")
        /\ ~BeginsNoCase(S_HTTP, input) /\ ~BeginsNoCase(S_HTTPS, input) => res.st = "Err"

-----------------------------------------------------------------------------
(* Claims about ip and host_or_ip.                                         *)

\* the position of group k when the groups before it have the lengths n
GroupStart(n, k) ==
    k + (IF k > 1 THEN n[1] ELSE 0) + (IF k > 2 THEN n[2] ELSE 0)
      + (IF k > 3 THEN n[3] ELSE 0)

\* n[k] digits stand at the place of group k, and their value is at most 255
GroupAt(i, n, k) ==
    /\ GroupStart(n, k) + n[k] - 1 <= Len(i)
    /\ \A q \in GroupStart(n, k)..(GroupStart(n, k) + n[k] - 1) : i[q] \in DigitChars
    /\ DecimalValue(SubSeq(i, GroupStart(n, k), GroupStart(n, k) + n[k] - 1)) <= 255

GroupValue(i, n, k) ==
    DecimalValue(SubSeq(i, GroupStart(n, k), GroupStart(n, k) + n[k] - 1))

\* a '.' stands right after group k
DotAfter(i, n, k) ==
    /\ GroupStart(n, k) + n[k] <= Len(i)
    /\ i[GroupStart(n, k) + n[k]] = "."

\* the groups of lengths n are well formed: each has n[k] digits of value at
\* most 255 and is followed by '.'
GroupsBefore(i, n) == \A k \in 1..Len(n) : GroupAt(i, n, k) /\ DotAfter(i, n, k)

\* i begins with the dotted quad whose groups have the lengths n
DottedQuad(i, n) == GroupsBefore(i, SubSeq(n, 1, 3)) /\ GroupAt(i, n, 4)

\* the group lengths, each 1 to 3, of every dotted quad that i begins with,
\* found group by group
QuadLengths(i) ==
    UNION {UNION {UNION {{n \in {<<a, b, c, d>> : d \in 1..3} : DottedQuad(i, n)}
        : c \in {m \in 1..3 : GroupsBefore(i, <<a, b, m>>)}}
        : b \in {m \in 1..3 : GroupsBefore(i, <<a, m>>)}}
        : a \in {m \in 1..3 : GroupsBefore(i, <<m>>)}}

QuadEnd(n) == GroupStart(n, 4) + n[4] - 1

QuadOctets(i, n) == [k \in 1..4 |-> GroupValue(i, n, k)]

\* the lengths of the groups that may stand before the last group reached
GroupLengthPrefixes == SeqsUpTo(1..3, 3)

\* C3: IPv4 has precedence over a named host: for every input that begins with
\* a valid dotted quad followed by a suffix s that starts with neither a digit
\* nor a dot, host_or_ip returns the IP variant of the four octets with
\* remainder s, never a named host.
C3_Ipv4BeforeNamedHost ==
    fn = "host_or_ip" =>
        \A n \in QuadLengths(input) :
            \/ QuadEnd(n) = Len(input)
            \/ input[QuadEnd(n) + 1] \notin DigitChars \cup {"."}
            => res = Ok(Drop(input, QuadEnd(n)), IP(QuadOctets(input, n)))

\* the text at the place of the group that follows the groups of lengths n
NextGroupText(i, n) == Drop(i, GroupStart(n, Len(n) + 1) - 1)

\* the next group: the longest run of digits there, cut at 3
NextGroupLen(i, n) ==
    IF SpanLen(NextGroupText(i, n), DigitChars) > 3 THEN 3
    ELSE SpanLen(NextGroupText(i, n), DigitChars)

NextGroupValue(i, n) == DecimalValue(Take(NextGroupText(i, n), NextGroupLen(i, n)))

AfterNextGroup(i, n) == Drop(NextGroupText(i, n), NextGroupLen(i, n))

\* what ip does at the group that follows the well-formed groups of lengths n,
\* with missingKind the error kind of a group that has no digit
IpAtNextGroup(i, n, missingKind) ==
    IF NextGroupLen(i, n) = 0
        THEN res.st = "Err" /\ res.kind = missingKind
    ELSE IF NextGroupValue(i, n) > 255
        THEN res = Err(AfterNextGroup(i, n), "Digit")
    ELSE IF Len(n) = 3
        THEN res = Ok(AfterNextGroup(i, n),
                      IP(<<GroupValue(i, n, 1), GroupValue(i, n, 2),
                           GroupValue(i, n, 3), NextGroupValue(i, n)>>))
    ELSE IF AfterNextGroup(i, n) # <<>> /\ Head(AfterNextGroup(i, n)) = "."
        THEN TRUE
    ELSE res = Err(AfterNextGroup(i, n), "Tag")

\* ip succeeds exactly on a dotted quad whose fourth group is the longest run
\* of up to 3 digits, and never returns an octet outside 0..255
IpAcceptsDottedQuads ==
    /\ res.st = "Ok" <=>
        \E n \in QuadLengths(input) :
            \/ n[4] = 3
            \/ QuadEnd(n) = Len(input)
            \/ input[QuadEnd(n) + 1] \notin DigitChars
    /\ res.st = "Ok" =>
        /\ res.out.variant = "IP"
        /\ \A k \in 1..4 : res.out.octets[k] \in 0..255

\* C4, as stated: ip accepts exactly the dotted quads of groups of 1 to 3 digits
\* with values at most 255, the fourth group taking at most 3 digits; a group
\* above 255 fails with kind Digit; a fourth digit in one of the first three
\* groups or a missing group fails with kind Tag.
C4_MissingGroupIsTag ==
    fn = "ip" =>
        /\ IpAcceptsDottedQuads
        /\ \A n \in GroupLengthPrefixes :
            GroupsBefore(input, n) => IpAtNextGroup(input, n, "Tag")

\* C4, amended: as stated, except that a group is missing in two ways: when the
\* text where a group must begin has no digit (the empty input, or a non-digit
\* at the start or right after a '.'), ip fails with kind OneOf at that place;
\* when one of the first three groups is followed by anything but '.' (a fourth
\* digit, another character, the end of the input), ip fails with kind Tag.
C4_IpGroupsAndErrorKinds ==
    fn = "ip" =>
        /\ IpAcceptsDottedQuads
        /\ \A n \in GroupLengthPrefixes :
            GroupsBefore(input, n) =>
                /\ IpAtNextGroup(input, n, "OneOf")
                /\ NextGroupLen(input, n) = 0 => res.rest = NextGroupText(input, n)

\* a fourth group of four digits: three are taken, the fourth is left
C4_Witness ==
    /\ fn = "ip"
    /\ input = <<"0",".","0",".","0",".","2","5","5","5">>
    /\ res = Ok(<<"5">>, IP(<<0, 0, 0, 255>>))

-----------------------------------------------------------------------------
(* Claims about host.                                                      *)

\* C5: for every input whose first character is neither alphanumeric nor a
\* hyphen, and for the empty input, host fails with kind AlphaNumeric reported
\* at the whole input, nothing consumed; it returns no Host with an empty name.
C5_HostRejectsLeadingInvalid ==
    fn = "host" =>
        /\ input = <<>> \/ Head(input) \notin AlnumHyphenChars
            => res = Err(input, "AlphaNumeric")
        /\ res.st = "Ok" => res.out.name # <<>>

\* a leading '.' before a label has been rejected
C5_Witness ==
    /\ fn = "host"
    /\ input = <<".","b","7">>
    /\ res = Err(input, "AlphaNumeric")

\* the length of the leading label of i
LabelLen(i) == SpanLen(i, AlnumHyphenChars)

\* the length of the longest prefix of i made of labels each followed by '.'
RECURSIVE DottedLen(_)
DottedLen(i) ==
    IF LabelLen(i) >= 1 /\ Len(i) > LabelLen(i) /\ i[LabelLen(i) + 1] = "."
    THEN LabelLen(i) + 1 + DottedLen(Drop(i, LabelLen(i) + 1))
    ELSE 0

\* the positions of the dots of a name
Dots(name) == {k \in 1..Len(name) : name[k] = "."}

\* one or more non-empty alphanumeric-or-hyphen labels each followed by '.',
\* then a non-empty alphabetic final label
IsDottedName(name) ==
    /\ Dots(name) # {}
    /\ 1 \notin Dots(name)
    /\ \A k \in Dots(name) : k + 1 <= Len(name) /\ name[k + 1] # "."
    /\ \A k \in 1..Len(name) :
        IF \E d \in Dots(name) : d > k
        THEN name[k] \in AlnumHyphenChars \cup {"."}
        ELSE name[k] \in AlphaChars \cup {"."}

\* C10: whenever host succeeds, the name followed by the remainder is the
\* input.  When the text after the dotted labels starts with a letter, the name
\* is those labels with their dots and the letters that follow; otherwise it is
\* the single leading label, and everything from the first '.' on is left.
C10_HostNameIsConsumedPrefix ==
    fn = "host" /\ res.st = "Ok" =>
        /\ res.out.variant = "HOST"
        /\ res.out.name \o res.rest = input
        /\ IF /\ DottedLen(input) > 0
              /\ SpanLen(Drop(input, DottedLen(input)), AlphaChars) > 0
           THEN /\ IsDottedName(res.out.name)
                /\ Len(res.out.name) = DottedLen(input)
                       + SpanLen(Drop(input, DottedLen(input)), AlphaChars)
           ELSE /\ res.out.name # <<>>
                /\ \A k \in 1..Len(res.out.name) : res.out.name[k] \in AlnumHyphenChars
                /\ res.rest = <<>> \/ Head(res.rest) \notin AlnumHyphenChars

\* a hyphenated label, a dot and a final label were joined back into the prefix
C10_Witness ==
    /\ fn = "host"
    /\ input = <<"b","-",".","b",":">>
    /\ res = Ok(<<":">>, HOST(<<"b","-",".","b">>))

-----------------------------------------------------------------------------
(* Claims about authority.                                                 *)

\* i begins with a username of n alphanumerics, c colons (0 or 1), a password
\* of m alphanumerics and then '@'
AuthorityPrefix(i, n, c, m) ==
    /\ n + c + m + 1 <= Len(i)
    /\ \A k \in 1..n : i[k] \in AlnumChars
    /\ c = 1 => i[n + 1] = ":"
    /\ \A k \in (n + c + 1)..(n + c + m) : i[k] \in AlnumChars
    /\ i[n + c + m + 1] = "@"

\* C6: authority never returns an error.  It returns Some((username, password))
\* with the remainder right after the '@' exactly when the input begins with a
\* non-empty alphanumeric username, an optional ':', an optional alphanumeric
\* password and then '@'; otherwise None with the whole input as remainder.
C6_AuthorityIsOptional ==
    fn = "authority" =>
        /\ res.st = "Ok"
        /\ \A n \in 1..Len(input), c \in {0, 1}, m \in 0..Len(input) :
            AuthorityPrefix(input, n, c, m) /\ (c = 0 => m = 0) =>
                res = Ok(Drop(input, n + c + m + 1),
                         Some(<<Take(input, n),
                                IF m = 0 THEN None
                                ELSE Some(SubSeq(input, n + c + 1, n + c + m))>>))
        /\ (~\E n \in 1..Len(input), c \in {0, 1}, m \in 0..Len(input) :
                AuthorityPrefix(input, n, c, m))
            => res = Ok(input, None)

\* a username and a colon were matched before the '@' turned out to be missing
C6_Witness ==
    /\ fn = "authority"
    /\ input = <<"u",":","7",".","@">>
    /\ res = Ok(input, None)

-----------------------------------------------------------------------------
(* Claims about headers and header.                                        *)

\* the first line of i with its newline, or all of i when it has no newline
FirstLine(i) ==
    IF \E k \in 1..Len(i) : i[k] = "\n"
    THEN Take(i, CHOOSE k \in 1..Len(i) : i[k] = "\n" /\ \A q \in 1..(k - 1) : i[q] # "\n")
    ELSE i

\* line l is a name of n characters, spaces, the colon at position c, then a
\* value up to the terminating newline
HeaderShape(l, n, c) ==
    /\ 1 <= n /\ n < c /\ c < Len(l)
    /\ \A k \in 1..n : l[k] \in AlnumHyphenChars
    /\ \A k \in (n + 1)..(c - 1) : l[k] \in SpaceChars
    /\ l[c] = ":"
    /\ l[Len(l)] = "\n"

IsHeaderLine(l) == \E n \in 1..Len(l), c \in 1..Len(l) : HeaderShape(l, n, c)

\* the (name, value) pair of a header line: the value is what follows the
\* spaces after the colon, without the newline
HeaderPair(l) ==
    LET c == CHOOSE c \in 1..Len(l) : \E n \in 1..Len(l) : HeaderShape(l, n, c)
        n == CHOOSE n \in 1..Len(l) : HeaderShape(l, n, c)
        v == SubSeq(l, c + 1, Len(l) - 1)
    IN  <<Take(l, n), Drop(v, SpanLen(v, SpaceChars))>>

\* the pairs of the header lines that i begins with
RECURSIVE LeadingHeaders(_)
LeadingHeaders(i) ==
    IF i # <<>> /\ IsHeaderLine(FirstLine(i))
    THEN <<HeaderPair(FirstLine(i))>> \o LeadingHeaders(Drop(i, Len(FirstLine(i))))
    ELSE <<>>

\* what is left of i after the header lines that it begins with
RECURSIVE AfterLeadingHeaders(_)
AfterLeadingHeaders(i) ==
    IF i # <<>> /\ IsHeaderLine(FirstLine(i))
    THEN AfterLeadingHeaders(Drop(i, Len(FirstLine(i))))
    ELSE i

\* C7: headers never fails: it returns the (name, value) pairs of the
\* consecutive well-formed header lines at the start of the input, in input
\* order with duplicate names retained, and the remainder begins at the first
\* line that is no header line (a blank line, a line without ':', a last line
\* without newline).
C7_HeadersTakesLeadingLines ==
    fn = "headers" =>
        /\ res.st = "Ok"
        /\ res.out = LeadingHeaders(input)
        /\ res.rest = AfterLeadingHeaders(input)
        /\ res.rest = <<>> \/ ~IsHeaderLine(FirstLine(res.rest))
        /\ \E k \in 0..Len(input) : res.rest = Drop(input, k)

\* two header lines of the same name were both kept, in order
C7_Witness ==
    /\ fn = "headers"
    /\ input = <<"a",":","a","\n","a",":","\n">>
    /\ res = Ok(<<>>, << <<(<<"a">>), <<"a">>>>, <<(<<"a">>), <<>>>> >>)

\* the parts of an input made of a name, spaces, ':', spaces, a value and a
\* newline: the name, the length of each run of spaces, the value
SpacedName(i) == Take(i, LabelLen(i))
SpacedBefore(i) == SpanLen(Drop(i, LabelLen(i)), SpaceChars)
SpacedAfter(i) == SpanLen(Drop(i, LabelLen(i) + SpacedBefore(i) + 1), SpaceChars)
SpacedTail(i) == Drop(i, LabelLen(i) + SpacedBefore(i) + 1 + SpacedAfter(i))

\* the input with the spaces around its colon removed
Unspaced(i) == SpacedName(i) \o <<":">> \o SpacedTail(i)

\* C8: spacing around the header colon is not significant: header applied to
\* name, spaces or tabs, ':', spaces or tabs, value, newline, rest returns the
\* same pair and the same remainder as header applied to name ':' value newline
\* rest; the value is every character up to the newline, which is consumed.
C8_ColonSpacingInsignificant ==
    fn = "header" =>
        /\ res = header(Unspaced(input))
        /\ res = Ok(Drop(SpacedTail(input), Len(FirstLine(SpacedTail(input)))),
                    <<SpacedName(input),
                      Take(SpacedTail(input), Len(FirstLine(SpacedTail(input))) - 1)>>)

\* a header line with a space and a tab on each side of its colon was parsed
C8_Witness ==
    /\ fn = "header"
    /\ input = <<"a","-"," ","\t",":","\t"," ","v",":","\n","a">>
    /\ res = Ok(<<"a">>, << <<"a","-">>, <<"v",":">> >>)

=============================================================================
